---- MODULE Spec2Model ----
(***************************************************************************)
(* Persona lifecycle manager and interface namespace migration of the      *)
(* wifi-dashboard manager (src/manager/manager_logic.py,                   *)
(* src/manager/interface_manager.py, src/manager/app.py).                  *)
(*                                                                         *)
(* The manager's state document (personas, interfaces) lives in memory and *)
(* in a JSON file; the world around it is the container runtime (which     *)
(* containers exist, and in which status) and the kernel (in which network *)
(* namespace every interface is, and under which name).                    *)
(***************************************************************************)
EXTENDS Integers, FiniteSets, Sequences, TLC

\* ---------------------------------------------------------------- bounds
\* Container ids the runtime can hand out in one run.
MaxContainers == 2
\* Seconds of wall clock (int(time.time())) a run can see: 0..MaxTime.
MaxTime == 4
\* Handler runs of one behaviour in which an external call fails.
MaxFaults == 1
\* Events of one behaviour that the environment causes (a container removed
\* or ended from outside, a device renamed by the operator, a second
\* passing, the manager restarted).
MaxEnv == 2

\* -------------------------------------------------------- fixed universes
\* PersonaManager.PERSONA_CONFIGS keys.
PersonaTypes == {"good", "bad", "wired"}
\* what the callers of a run pass as persona_type: a wireless type, the wired
\* one and an unknown one ('good' and 'bad' differ in PERSONA_CONFIGS only,
\* which start_persona copies into the container's environment).
RequestTypes == {"good", "wired", "ugly"}
\* the host's devices: two radios and one wired port.
Ifaces == {"wlan0", "wlan1", "eth0"}
WifiIfaces == {"wlan0", "wlan1"}
\* `iw dev <iface> info` prints "wiphy N": the radio of each wireless device.
PhyOf(i) == IF i = "wlan0" THEN "phy0" ELSE IF i = "wlan1" THEN "phy1" ELSE "none"
\* the devices that belong to a radio.
IfacesOfPhy(p) == {i \in WifiIfaces : PhyOf(i) = p}

\* a missing or empty request field (None, ''): falsy.
NoValue == ""
\* the network identifier and the credential a request can carry, and what
\* read_config() can return: ("", "") or both lines of the config file
\* (update_wifi writes the file only with both set).
Ssids == {NoValue, "TestNet"}
Passwords == {NoValue, "secret"}
Configs == { [ssid |-> NoValue, password |-> NoValue],
             [ssid |-> "HomeNet", password |-> "homepw"] }

ContainerIds == 1..MaxContainers
\* a container id found in a state document that no container of this run has.
LegacyId == MaxContainers + 1
\* dict.get(...) of a missing key: None (for an id and for a name).
NoId == 0
NoName == <<>>
\* the host's root network namespace: that of PID 1 ("netns", "1").
HostNs == 1
\* time.sleep(2) after container.start(): the seconds a start spends there.
StartupGrace == 2

EmptyMap == [x \in {} |-> x]
Restrict(f, S) == [x \in S |-> f[x]]
\* the element of a one-element set; The({e(x) : x \in {v}}) is e(v) with v
\* evaluated once.
The(X) == CHOOSE x \in X : TRUE

\* f"persona-{persona_type}-{interface}-{int(time.time())}"
ContainerName(ptype, iface, t) == <<ptype, iface, t>>

\* 'eth_sim' if persona_type == 'wired' else 'wlan_sim'
TargetName(ptype) == IF ptype = "wired" THEN "eth_sim" ELSE "wlan_sim"

VARIABLES
    personas,    \* state['personas']: container id -> persona record
    interfaces,  \* state['interfaces']: interface name -> assignment record
    disk,        \* the state file: [ok, personas, interfaces]
    client,      \* PersonaManager._client_initialized and client is not None
    imClient,    \* InterfaceManager._initialized and client is not None
    containers,  \* the runtime: existing container id -> [name, status, env]
    nextId,      \* the next container id the runtime hands out
    loc,         \* kernel: interface -> namespace (HostNs or a container's)
    ifname,      \* kernel: interface -> the name the device carries now
    now,         \* int(time.time())
    last,        \* what the latest operation was and what it returned
    nfaults,     \* handler runs so far in which an external call failed
    nenv,        \* environment events so far
    tpc,         \* per request thread: where it is in start_persona
    treq,        \* per request thread: the request's arguments
    tcid,        \* per request thread: the container it created
    tstop,       \* the thread of a stop request: where it is, and its locals
    tbuf         \* per request thread: what its open state file is to receive

vars == <<personas, interfaces, disk, client, imClient, containers, nextId,
          loc, ifname, now, last, nfaults, nenv, tpc, treq, tcid, tstop, tbuf>>

mgrVars == <<personas, interfaces, disk, client, imClient>>
worldVars == <<containers, nextId, loc, ifname, now>>
threadVars == <<tpc, treq, tcid, tstop, tbuf>>

\* ------------------------------------------------------------ the runtime
\* container.id / container.name of everything containers.list(all=True) returns.
ActualIds(cs) == DOMAIN cs
ActualNames(cs) == {cs[c].name : c \in DOMAIN cs}

\* client.containers.get(id) / get(name) finds something.
ExistsById(cs, id) == id \in DOMAIN cs
ExistsByName(cs, name) == \E c \in DOMAIN cs : cs[c].name = name

\* the pid of a running container's init process, which names the container's
\* network namespace: a host pid of its own, past PID 1.
NsOf(c) == c + 1

\* container.attrs['State']['Pid']: 0 unless the container runs.
PidOf(cs, c) == IF c \in DOMAIN cs /\ cs[c].status = "running" THEN NsOf(c) ELSE 0

\* ------------------------------------------------------------- the kernel
\* the device that carries name n in namespace ns (names are unique in one).
DevicesNamed(l, nm, ns, n) == {i \in Ifaces : l[i] = ns /\ nm[i] = n}

\* The kernel destroys a network namespace with its last process: the physical
\* devices inside go back to the root namespace, under the name they carry
\* unless the root namespace has that name already (then a kernel-made one).
ReleaseLoc(l, c) == [i \in Ifaces |-> IF l[i] = NsOf(c) THEN HostNs ELSE l[i]]
ReleaseName(l, nm, c) ==
    [i \in Ifaces |->
        IF l[i] = NsOf(c) /\ DevicesNamed(l, nm, HostNs, nm[i]) # {}
        THEN "dev%d" ELSE nm[i]]

\* -------------------------------------------------------- the state file
\* _save_state: open(..., 'w') truncates the file and json.dump fills it; an
\* exception is logged and swallowed.  "ok" writes the document, "failed"
\* fails before the file is touched, "torn" fails after the truncation.
SaveOutcomes == {"ok", "failed", "torn"}
TornDoc == [ok |-> FALSE, personas |-> EmptyMap, interfaces |-> EmptyMap]
SaveState(P, I, d, outcome) ==
    IF outcome = "ok" THEN [ok |-> TRUE, personas |-> P, interfaces |-> I]
    ELSE IF outcome = "torn" THEN TornDoc
    ELSE d

\* the document a complete write of the records in memory leaves in the file.
Document(P, I) == [ok |-> TRUE, personas |-> P, interfaces |-> I]

\* _load_state: the document of the file, or the empty default when the file
\* is missing or does not parse.
LoadState(d) ==
    IF d.ok THEN [personas |-> d.personas, interfaces |-> d.interfaces]
    ELSE [personas |-> EmptyMap, interfaces |-> EmptyMap]

\* _ensure_client: connects (from_env + ping) unless already connected.
EnsureClient(cl, ping) == cl \/ ping

\* ------------------------------------------------------- reconciliation
\* a persona loop that finds nothing to remove.
PersonasToRemoveNone(P, cs) == {}

\* personas_to_remove: neither the id nor the recorded name is an actual one.
PersonasToRemove(P, cs) ==
    {c \in DOMAIN P : c \notin ActualIds(cs) /\ P[c].container_name \notin ActualNames(cs)}

\* the interface records the persona loop deletes with their persona.
IfacesOfRemoved(P, I, rm) ==
    {i \in DOMAIN I : \E c \in rm : P[c].interface = i /\ I[i].container_id = c}

\* interfaces_to_remove: id set and not actual, and name set and not actual.
InterfacesToRemove(I, cs) ==
    {i \in DOMAIN I :
        /\ I[i].container_id # NoId
        /\ I[i].container_id \notin ActualIds(cs)
        /\ I[i].container_name # NoName
        /\ I[i].container_name \notin ActualNames(cs)}

\* a reconciliation that leaves the interface loop to the next run whenever
\* its persona loop removed something.
ReconcileRecordsDeferred(P, I, cs) ==
    LET rm == PersonasToRemove(P, cs)
        I1 == Restrict(I, DOMAIN I \ IfacesOfRemoved(P, I, rm))
        P1 == Restrict(P, DOMAIN P \ rm)
        im == IF rm # {} THEN {} ELSE InterfacesToRemove(I1, cs)
        I2 == Restrict(I1, DOMAIN I1 \ im)
    IN [personas |-> P1, interfaces |-> I2, wrote |-> (rm # {} \/ im # {})]

\* Lines 386-420, given the actual containers: the persona loop (which takes
\* the interface record of a removed persona with it), then the interface loop
\* over what is left; wrote: something was removed, so _save_state is called.
ReconcileRecords(P, I, cs) ==
    LET rm == PersonasToRemove(P, cs)
        I1 == Restrict(I, DOMAIN I \ IfacesOfRemoved(P, I, rm))
        P1 == Restrict(P, DOMAIN P \ rm)
        im == InterfacesToRemove(I1, cs)
        I2 == Restrict(I1, DOMAIN I1 \ im)
    IN [personas |-> P1, interfaces |-> I2, wrote |-> (rm # {} \/ im # {})]

\* a reconciliation that takes a listing it could not get for an empty one.
CleanupStaleStateUnguarded(P, I, cs, cl, ping, listOk) ==
    LET seen == IF EnsureClient(cl, ping) /\ listOk THEN cs ELSE EmptyMap
        r == ReconcileRecords(P, I, seen)
    IN [personas |-> r.personas, interfaces |-> r.interfaces,
        wrote |-> r.wrote, listed |-> EnsureClient(cl, ping) /\ listOk,
        client |-> EnsureClient(cl, ping), raised |-> FALSE]

\* a container of another application on the same runtime.
ForeignName == <<"other", "-", 0>>

\* filters={'name': 'persona-'} (lines 381 and 439): the names that hold the
\* prefix every name of line 176 starts with.
PersonaNamed(n) == n[1] # ForeignName[1]

\* a listing that reports the running containers only.
ListAllRunning(cs) == Restrict(cs, {c \in DOMAIN cs : cs[c].status = "running"})

\* Line 381, containers.list(all=True, filters={'name': 'persona-'}): every
\* persona container, whatever its status.
ListAll(cs) == Restrict(cs, {c \in DOMAIN cs : PersonaNamed(cs[c].name)})

\* _cleanup_stale_state on documents P, I: what it leaves, and what it did.
\* ping: the connect attempt of _ensure_client; listOk: containers.list works
\* (its exception is caught by the except clause around the whole body).
CleanupStaleState(P, I, cs, cl, ping, listOk) ==
    LET r == ReconcileRecords(P, I, ListAll(cs))
    IN IF ~EnsureClient(cl, ping) \/ ~listOk
       THEN [personas |-> P, interfaces |-> I, wrote |-> FALSE, listed |-> FALSE,
             client |-> EnsureClient(cl, ping), raised |-> FALSE]
       ELSE [personas |-> r.personas, interfaces |-> r.interfaces,
             wrote |-> r.wrote, listed |-> TRUE, client |-> TRUE,
             raised |-> FALSE]

\* ---------------------------------------------------- operation records
\* op: the operation; iface, cid: its arguments / the id it returned;
\* ok, msg, why, diag: the (success, message) it returned, the message split
\* into its fixed part, the inner message and the tool's diagnostic text;
\* created: the container it created (NoId: none); wrote: _save_state ran;
\* listed: reconciliation could list the containers; raised: an exception
\* left the operation; shown: the interface listing it returned; ptype, ssid,
\* password: the fields of the request; phy, moved, back: what its call of
\* move_to_container did; ret: what its call of return_to_host came to;
\* results: the entries cleanup_all returned, container -> success; probe:
\* what a start's probe of the recorded container established; pid, steps:
\* the process id a stop captured and the calls it made, in order.
NoLast == [op |-> "init", iface |-> "-", cid |-> NoId,
           ok |-> TRUE, msg |-> "-", why |-> "-", diag |-> "-",
           created |-> NoId, wrote |-> FALSE, listed |-> FALSE,
           raised |-> FALSE, shown |-> EmptyMap,
           ptype |-> "-", ssid |-> NoValue, password |-> NoValue,
           phy |-> "none", moved |-> FALSE, back |-> FALSE, ret |-> "none",
           down |-> "none", up |-> FALSE, include_ethernet |-> TRUE,
           results |-> EmptyMap, probe |-> "none", pid |-> 0, steps |-> <<>>]

\* ----------------------------------------------------- interface discovery
\* the names the code's patterns take for wireless ('wlan' in name) and for
\* wired (name.startswith('eth')) among the names a device can carry here.
WlanLike(n) == n \in {"wlan0", "wlan1", "wlan_sim", "br-wlan"}
EthLike(n) == n \in {"eth0", "eth_sim"}

\* the names the code's prefix tests take: startswith('lo'), 'docker' or
\* 'br-' (lines 341 and 397-399), and startswith('mon') (line 413).
VirtualLike(n) == n \in {"lo", "docker0", "br-wlan"}
MonLike(n) == n \in {"mon0"}

\* the device names of the root namespace (`ip link show`, /sys/class/net).
HostNames(l, nm) == {nm[i] : i \in {x \in Ifaces : l[x] = HostNs}}

\* `iw dev <n> info` exits 0: a wireless device of that name is on the host.
IsWireless(l, nm, n) == DevicesNamed(l, nm, HostNs, n) \cap WifiIfaces # {}

\* The host's management device: the one its default route goes through
\* whenever it is in the root namespace (a device that leaves the namespace
\* takes its routes with it; the host's network service re-adds the route
\* when the device is back).
Uplink == "wlan0"
RouteDev(l, nm) == IF l[Uplink] = HostNs THEN nm[Uplink] ELSE "none"

\* The outcomes of the tools of one discovery run: `ip route show default`
\* (route), `iw dev` and `iw dev <n> info` (iw), `ip link show` (iplink) and
\* the listing of /sys/class/net (sysfs).
NoToolFault == [route |-> "ok", iw |-> TRUE, iplink |-> TRUE, sysfs |-> TRUE]
ToolFaults ==
    { NoToolFault,
      [NoToolFault EXCEPT !.route = "fail"],
      [NoToolFault EXCEPT !.iw = FALSE],
      [NoToolFault EXCEPT !.iplink = FALSE],
      [NoToolFault EXCEPT !.sysfs = FALSE],
      [NoToolFault EXCEPT !.iw = FALSE, !.iplink = FALSE, !.sysfs = FALSE] }

\* one entry of a listing: its type and the keys that are set and true.
Entry(type, flags) == [type |-> type, flags |-> flags]

\* list_available_interfaces(include_ethernet) under tool outcomes g: the
\* wireless names of methods 1 to 3, the wired names of method 4, less the
\* filtered name; every entry says 'available': True and has no
\* 'assignable' key.
\* names: the devices of the root namespace; wireless: those `iw dev` lists
\* and `iw dev <n> info` exits 0 for.  Methods 1 and 2 test no prefix, method
\* 3 skips lo*, docker* and br-*, method 4 these too; the filter of lines
\* 410-419 drops mon* and the name 'wlan_sim'.
DiscoverInterfaces(names, wireless, include_ethernet, g) ==
    LET byIw == IF g.iw THEN names \cap wireless ELSE {}
        byName == {n \in names : WlanLike(n)}
        m1 == byIw
        m2 == IF g.iplink THEN byName \cup byIw ELSE {}
        m3 == IF g.sysfs
              THEN {n \in byName \cup byIw : ~VirtualLike(n)} ELSE {}
        wifi == m1 \cup m2 \cup m3
        m4 == IF include_ethernet /\ g.iplink
              THEN {n \in names \ wifi : EthLike(n) /\ ~VirtualLike(n)}
              ELSE {}
        kept == {n \in wifi \cup m4 : ~MonLike(n) /\ n # "wlan_sim"}
    IN [n \in kept |->
          Entry(IF n \in wifi THEN "wifi" ELSE "ethernet", {"available"})]

\* list_available_interfaces run on the host as it is.
ListAvailableInterfaces(l, nm, include_ethernet, g) ==
    DiscoverInterfaces(HostNames(l, nm),
                       {n \in HostNames(l, nm) : IsWireless(l, nm, n)},
                       include_ethernet, g)

\* api_interfaces lines 407-424: the device named by `ip route show default`,
\* None when the tool fails or prints no route.
ProtectedIface(l, nm, g) == IF g.route = "ok" THEN RouteDev(l, nm) ELSE "none"

\* api_interfaces lines 458-474: 'assignable' defaults to True, and the entry
\* named protected_iface is marked.
MarkProtected(listing, protected_iface) ==
    [n \in DOMAIN listing |->
        IF protected_iface # "none" /\ n = protected_iface
        THEN Entry(listing[n].type, {"protected"})
        ELSE Entry(listing[n].type, listing[n].flags \cup {"assignable"})]

\* api_interfaces lines 430-456, the listing made without the managers: the
\* wlan and eth names of `ip link show`, none filtered.
BasicListing(l, nm) ==
    [n \in {x \in HostNames(l, nm) : WlanLike(x) \/ EthLike(x)} |->
        Entry(IF WlanLike(n) THEN "wifi" ELSE "ethernet",
              {"available", "assignable"})]

\* ------------------------------------------------- interface migration
\* get_phy_name, run on the host: `iw dev <interface> info` exits non-zero
\* (-> None) unless a wireless device of that name is in the root namespace;
\* out: what the tool does when it can answer ("resolved": prints wiphy N,
\* "fallback": prints no wiphy line, "fail": times out or exits non-zero).
GetPhyName(l, nm, n, out) ==
    LET d == DevicesNamed(l, nm, HostNs, n) \cap WifiIfaces
    IN IF d = {} \/ out = "fail" THEN "none"
       ELSE IF out = "fallback" THEN "phy0"
       ELSE PhyOf(CHOOSE i \in d : TRUE)

\* the namespace a radio is in (that of its devices).
PhyIn(l, p, ns) == IfacesOfPhy(p) # {} /\ \A i \in IfacesOfPhy(p) : l[i] = ns

\* `iw phy <p> set netns <pid>` run in namespace `from`: the radio's devices move.
MovePhy(l, p, to) == [i \in Ifaces |-> IF i \in IfacesOfPhy(p) THEN to ELSE l[i]]

\* return_to_host(interface, container_pid).  alive: the namespace of the pid
\* still exists.  t1: the direct move ("ok", "fail" = non-zero exit, "timeout");
\* phy2, t2: the lookup and the radio move of the fallback tier.  tier: the
\* tier that returned; radio: the radio move of the fallback tier was run;
\* up: `ip link set <interface> up` was run on the host (lines 210-215, on
\* the direct tier only).
ReturnToHost(l, nm, n, pid, alive, t1, phy2, t2) ==
    LET d == DevicesNamed(l, nm, pid, n)
        direct == /\ alive /\ pid > HostNs /\ d # {} /\ t1 = "ok"
                  /\ DevicesNamed(l, nm, HostNs, n) = {}
        i == CHOOSE x \in d : TRUE
        phy == GetPhyName(l, nm, n, phy2)
        radio == /\ phy # "none" /\ alive /\ pid > HostNs
                 /\ PhyIn(l, phy, pid) /\ t2 = "ok"
    IN IF direct
       THEN [ok |-> TRUE, tier |-> "direct", up |-> TRUE, radio |-> FALSE,
             loc |-> [l EXCEPT ![i] = HostNs]]
       ELSE IF t1 = "timeout"
       THEN [ok |-> FALSE, tier |-> "direct", up |-> FALSE, radio |-> FALSE,
             loc |-> l]
       ELSE IF radio
       THEN [ok |-> TRUE, tier |-> "radio", up |-> FALSE, radio |-> TRUE,
             loc |-> MovePhy(l, phy, HostNs)]
       ELSE [ok |-> FALSE, tier |-> "radio", up |-> FALSE,
             radio |-> phy # "none", loc |-> l]

\* what a call of return_to_host came to: which tier returned True, or that
\* it returned False after both moves were run ("both_failed") or without
\* the radio move being run ("abandoned").
ReturnOutcome(r) ==
    IF r.ok THEN r.tier ELSE IF r.radio THEN "both_failed" ELSE "abandoned"

\* The outcomes of the external calls of one handler run: the container
\* runtime (ping, list, probe, create, cstart, get, stop, remove), the
\* container itself (early: it exits during the start-up grace period), the
\* network tools (phy, down, mv, show, ren, up, t1, phy2, t2) and the file
\* system (save).
NoFault ==
    [ping |-> TRUE, list |-> TRUE, probe |-> "ok", create |-> "ok",
     cstart |-> "ok", early |-> "no", get |-> "ok", reload |-> "ok",
     phy |-> "resolved", down |-> "ok", mv |-> "ok", show |-> "ok",
     ren |-> "ok", up |-> "ok", t1 |-> "ok", phy2 |-> "resolved", t2 |-> "ok",
     stop |-> "ok", remove |-> "ok", save |-> "ok"]

\* the runtime is unreachable for the whole run.
DockerDown ==
    [NoFault EXCEPT !.ping = FALSE, !.list = FALSE, !.probe = "err",
                    !.create = "api", !.cstart = "api", !.get = "api",
                    !.reload = "err", !.stop = "err", !.remove = "err"]

\* a failure message that leaves the tool's text out.
ErrorMsgDropped(tool) == "-"

\* error_msg = e.stderr.decode() if e.stderr else str(e): what the failing
\* tool wrote (or the exception's text, which names the command).
ErrorMsg(tool) == IF tool = "iw" THEN "iw_stderr" ELSE "ip_stderr"

\* the return statements of move_to_container that come before its first
\* command on the host (lines 95-108), with the deactivation after the
\* container was looked up.
ReturnsBeforeDownEager == {"no_docker", "api_error"}

\* the return statements of move_to_container that come before its first
\* command on the host (lines 95-108).
ReturnsBeforeDown == {"no_docker", "api_error", "not_found", "not_running", "no_phy"}

\* what became of `ip link set <interface> down` (lines 111-119) in a call
\* that took return statement `why`: "none" when it was not run.
DownOutcome(why, out) ==
    IF why \in ReturnsBeforeDown THEN "none"
    ELSE IF out = "ok" THEN "done" ELSE out

\* a radio move whose failure is logged and passed over.
MoveFailedIgnored(ok) == FALSE

\* Lines 131-133: CalledProcessError of `iw phy <phy> set netns <pid>` is
\* caught and ends the call with `return False, ...`.
MoveFailed(ok) == ~ok

\* move_to_container(interface, container_name, target_name) under outcomes f.
\* why: which return statement was taken; diag: the tool's text it carries;
\* phy: the radio `iw phy <phy> set netns` was run with ("none": not run);
\* moved: that command succeeded; back: return_to_host was called; ret: what
\* that call came to.
MoveToContainer(l, nm, cs, imcl, iface, cname, target, f) ==
    LET fail(why, diag, l2, nm2, cl2, p, mvd, rt, bu) ==
            [ok |-> FALSE, why |-> why, diag |-> diag, loc |-> l2,
             ifname |-> nm2, imClient |-> cl2, phy |-> p, moved |-> mvd,
             back |-> rt # "none", ret |-> rt, up |-> bu,
             down |-> DownOutcome(why, f.down)]
        found == {c \in DOMAIN cs : cs[c].name = cname}
        c == CHOOSE x \in found : TRUE
        pid == PidOf(cs, c)
        phy == GetPhyName(l, nm, iface, f.phy)
        mvok == f.mv = "ok" /\ PhyIn(l, phy, HostNs)
        l1 == IF mvok THEN MovePhy(l, phy, pid) ELSE l
        dev == DevicesNamed(l1, nm, pid, iface)
        nm1 == [i \in Ifaces |-> IF i \in dev THEN target ELSE nm[i]]
        back == ReturnToHost(l1, nm, iface, pid, TRUE, f.t1, f.phy2, f.t2)
        back1 == ReturnToHost(l1, nm1, iface, pid, TRUE, f.t1, f.phy2, f.t2)
    IN IF ~EnsureClient(imcl, f.ping)
       THEN fail("no_docker", "-", l, nm, FALSE, "none", FALSE, "none", FALSE)
       ELSE IF f.get = "api" THEN fail("api_error", "-", l, nm, TRUE, "none", FALSE, "none", FALSE)
       ELSE IF found = {} THEN fail("not_found", "-", l, nm, TRUE, "none", FALSE, "none", FALSE)
       ELSE IF pid = 0 THEN fail("not_running", "-", l, nm, TRUE, "none", FALSE, "none", FALSE)
       ELSE IF phy = "none" THEN fail("no_phy", "-", l, nm, TRUE, "none", FALSE, "none", FALSE)
       ELSE IF f.down = "timeout" THEN fail("unexpected", "-", l, nm, TRUE, "none", FALSE, "none", FALSE)
       ELSE IF f.mv = "timeout" THEN fail("unexpected", "-", l, nm, TRUE, phy, FALSE, "none", FALSE)
       ELSE IF MoveFailed(mvok)
       THEN fail("move_failed", ErrorMsg("iw"), l, nm, TRUE, phy, FALSE,
                 "none", FALSE)
       ELSE IF f.show = "timeout" THEN fail("unexpected", "-", l1, nm, TRUE, phy, mvok, "none", FALSE)
       ELSE IF f.ren = "timeout" THEN fail("unexpected", "-", l1, nm, TRUE, phy, mvok, "none", FALSE)
       ELSE IF f.ren # "ok" \/ dev = {} \/ DevicesNamed(l1, nm, pid, target) # {}
       THEN fail("configure_failed", ErrorMsg("ip"), back.loc, nm, TRUE, phy,
                 mvok, ReturnOutcome(back), back.up)
       ELSE IF f.up = "timeout" THEN fail("unexpected", "-", l1, nm1, TRUE, phy, mvok, "none", FALSE)
       ELSE IF f.up # "ok"
       THEN fail("configure_failed", ErrorMsg("ip"), back1.loc, nm1, TRUE, phy,
                 mvok, ReturnOutcome(back1), back1.up)
       ELSE [ok |-> TRUE, why |-> "moved", diag |-> "-", loc |-> l1,
             ifname |-> nm1, imClient |-> TRUE, phy |-> phy, moved |-> mvok,
             back |-> FALSE, ret |-> "none", up |-> FALSE,
             down |-> DownOutcome("moved", f.down)]

\* ------------------------------------------------------ container effects
\* container.stop() that works: the container's processes end, and with them
\* its network namespace.
StopContainer(S, c) ==
    IF c \in DOMAIN S.containers /\ S.containers[c].status = "running"
    THEN [S EXCEPT !.containers[c].status = "exited",
                   !.loc = ReleaseLoc(S.loc, c),
                   !.ifname = ReleaseName(S.loc, S.ifname, c)]
    ELSE S

\* container.remove() (no force): refused for a running container.
CanRemove(S, c) == c \in DOMAIN S.containers /\ S.containers[c].status # "running"
RemoveContainer(S, c) ==
    [S EXCEPT !.containers = Restrict(S.containers, DOMAIN S.containers \ {c})]

\* ---------------------------------------------------------- start_persona
\* a probe that trusts the record.
ContainerExistsTrusted(rec, cs, cl, f) == TRUE

\* The probe of lines 149-165: the recorded container exists.  Any exception
\* other than NotFound is swallowed and leaves container_exists False.
ContainerExists(rec, cs, cl, f) ==
    /\ EnsureClient(cl, f.ping)
    /\ f.probe = "ok"
    /\ \/ rec.container_id # NoId /\ ExistsById(cs, rec.container_id)
       \/ rec.container_name # NoName /\ ExistsByName(cs, rec.container_name)

\* what the probe of lines 149-165 established about the recorded container:
\* that it exists, that it does not (every lookup made answered NotFound),
\* or nothing (no client, or a lookup raised something else).
ProbeOutcome(rec, cs, cl, f) ==
    IF ~EnsureClient(cl, f.ping) \/ f.probe # "ok" THEN "unknown"
    ELSE IF ContainerExists(rec, cs, cl, f) THEN "exists"
    ELSE "absent"

\* a type check that lets every type through.
KnownTypeAny(ptype) == TRUE

\* Line 136, `persona_type in self.PERSONA_CONFIGS`.
KnownType(ptype) == ptype \in PersonaTypes

\* Lines 136-173: type check, reconciliation, availability decision.
StartCheck(S, ptype, iface, f) ==
    IF ~KnownType(ptype)
    THEN [S |-> S, decision |-> "unknown_type", wrote |-> FALSE, listed |-> FALSE,
          probe |-> "none"]
    ELSE
    LET r == CleanupStaleState(S.personas, S.interfaces, S.containers,
                               S.client, f.ping, f.list)
        d1 == IF r.wrote THEN SaveState(r.personas, r.interfaces, S.disk, f.save)
              ELSE S.disk
        S1 == [S EXCEPT !.personas = r.personas, !.interfaces = r.interfaces,
                        !.disk = d1, !.client = r.client]
        busy == iface \in DOMAIN S1.interfaces
        exists == ContainerExists(S1.interfaces[iface], S1.containers, S1.client, f)
        probe == ProbeOutcome(S1.interfaces[iface], S1.containers, S1.client, f)
        cl2 == EnsureClient(S1.client, f.ping)
        I2 == Restrict(S1.interfaces, DOMAIN S1.interfaces \ {iface})
        S2 == [S1 EXCEPT !.interfaces = I2, !.client = cl2,
                         !.disk = SaveState(S1.personas, I2, S1.disk, f.save)]
    IN IF ~busy
       THEN [S |-> S1, decision |-> "proceed", wrote |-> r.wrote, listed |-> r.listed,
             probe |-> "none"]
       ELSE IF exists
       THEN [S |-> [S1 EXCEPT !.client = cl2], decision |-> "already_assigned",
             wrote |-> r.wrote, listed |-> r.listed, probe |-> probe]
       ELSE [S |-> S2, decision |-> "proceed", wrote |-> TRUE, listed |-> r.listed,
             probe |-> probe]

\* Lines 191-194: env_vars gets SSID and PASSWORD when they are set (a
\* missing key reads NoValue).
EnvVars(ssid, password) == [SSID |-> ssid, PASSWORD |-> password]

\* Lines 175-224: the container is created and started; slept: the start-up
\* grace period of line 224 was waited out.
StartCreate(S, ptype, iface, ssid, password, t, f) ==
    LET name == ContainerName(ptype, iface, t)
        c == S.nextId
        S1 == [S EXCEPT !.client = TRUE]
        S2 == [S1 EXCEPT !.containers = [x \in DOMAIN S.containers \cup {c} |->
                             IF x = c
                             THEN [name |-> name, status |-> "created",
                                   env |-> EnvVars(ssid, password)]
                             ELSE S.containers[x]],
                         !.nextId = c + 1]
        S3 == [S2 EXCEPT !.containers[c].status = "running"]
        S4 == IF f.early = "exit"
              THEN [S3 EXCEPT !.containers[c].status = "exited"]
              ELSE IF f.early = "gone"
              THEN RemoveContainer(StopContainer(S3, c), c)
              ELSE S3
    IN IF ~EnsureClient(S.client, f.ping)
       THEN [S |-> S, ok |-> FALSE, msg |-> "no_docker", created |-> NoId,
             slept |-> FALSE]
       ELSE IF f.create = "image"
       THEN [S |-> S1, ok |-> FALSE, msg |-> "image_not_found", created |-> NoId,
             slept |-> FALSE]
       ELSE IF f.create = "api" \/ ExistsByName(S.containers, name)
       THEN [S |-> S1, ok |-> FALSE, msg |-> "api_error", created |-> NoId,
             slept |-> FALSE]
       ELSE IF f.cstart = "api"
       THEN [S |-> S2, ok |-> FALSE, msg |-> "api_error", created |-> c,
             slept |-> FALSE]
       ELSE [S |-> S4, ok |-> TRUE, msg |-> "-", created |-> c, slept |-> TRUE]

\* a start_persona that never takes the failure branch of line 235.
NotSuccessIgnored(m) == FALSE

\* Line 235, `if not success:` on what move_to_container returned.
NotSuccess(m) == ~m.ok

\* a persona record that keeps the credential the container was given.
PersonaRecordWithEnv(name, ptype, iface, env_vars) ==
    [container_name |-> name, persona_type |-> ptype, interface |-> iface,
     password |-> env_vars.PASSWORD]

\* Lines 245-252: the persona record is built from the name, the type and
\* the interface (hostname and status come from the type's configuration);
\* env_vars, which holds the password, is in scope and is not used.
PersonaRecord(name, ptype, iface, env_vars) ==
    [container_name |-> name, persona_type |-> ptype, interface |-> iface]

\* Lines 226-263: the interface is moved; on failure the container is torn
\* down (stop and remove in one try: a failing stop skips the remove), on
\* success both records are written and saved.
StartAttach(S, ptype, iface, t, c, f) ==
    LET name == ContainerName(ptype, iface, t)
        after(m) == [S EXCEPT !.loc = m.loc, !.ifname = m.ifname,
                              !.imClient = m.imClient]
        undone(S1) ==
            IF f.stop # "ok" THEN S1
            ELSE IF f.remove # "ok" \/ ~CanRemove(StopContainer(S1, c), c)
            THEN StopContainer(S1, c)
            ELSE RemoveContainer(StopContainer(S1, c), c)
        P2 == [x \in DOMAIN S.personas \cup {c} |->
                 IF x = c
                 THEN PersonaRecord(name, ptype, iface, S.containers[c].env)
                 ELSE S.personas[x]]
        I2 == [x \in DOMAIN S.interfaces \cup {iface} |->
                 IF x = iface THEN [container_id |-> c, container_name |-> name,
                                    persona_type |-> ptype]
                 ELSE S.interfaces[x]]
        recorded(S1) == [S1 EXCEPT !.personas = P2, !.interfaces = I2,
                                   !.disk = SaveState(P2, I2, S1.disk, f.save)]
    IN The({ IF NotSuccess(m)
             THEN [S |-> undone(after(m)), ok |-> FALSE, msg |-> "move_failed",
                   why |-> m.why, diag |-> m.diag, cid |-> NoId, wrote |-> FALSE,
                   phy |-> m.phy, moved |-> m.moved, back |-> m.back,
                   ret |-> m.ret, down |-> m.down, up |-> m.up]
             ELSE [S |-> recorded(after(m)), ok |-> TRUE, msg |-> "started",
                   why |-> "-", diag |-> "-", cid |-> c, wrote |-> TRUE,
                   phy |-> m.phy, moved |-> m.moved, back |-> m.back,
                   ret |-> m.ret, down |-> m.down, up |-> m.up]
             : m \in {MoveToContainer(S.loc, S.ifname, S.containers, S.imClient,
                                      iface, name, TargetName(ptype), f)} })

\* a start that did not reach move_to_container.
NoMove == [phy |-> "none", moved |-> FALSE, back |-> FALSE, ret |-> "none",
           down |-> "none", up |-> FALSE]

\* start_persona(persona_type, interface, ssid, password) at time t under
\* outcomes f.
StartPersona(S, ptype, iface, ssid, password, t, f) ==
    LET res(a, S2, ok, msg, why, diag, cid, created, wrote, slept, m) ==
            [S |-> S2, ok |-> ok, msg |-> msg, why |-> why, diag |-> diag,
             cid |-> cid, created |-> created, wrote |-> wrote,
             listed |-> a.listed, slept |-> slept, phy |-> m.phy,
             moved |-> m.moved, back |-> m.back, ret |-> m.ret,
             down |-> m.down, up |-> m.up,
             probe |-> a.probe]
        attach(a, b) ==
            The({ res(a, c.S, c.ok, c.msg, c.why, c.diag, c.cid, b.created,
                      a.wrote \/ c.wrote, b.slept, c)
                  : c \in {StartAttach(b.S, ptype, iface, t, b.created, f)} })
        create(a) ==
            The({ IF ~b.ok
                  THEN res(a, b.S, FALSE, b.msg, "-", "-", NoId, b.created,
                           a.wrote, b.slept, NoMove)
                  ELSE attach(a, b)
                  : b \in {StartCreate(a.S, ptype, iface, ssid, password, t, f)} })
    IN The({ IF a.decision # "proceed"
             THEN res(a, a.S, FALSE, a.decision, "-", "-", NoId, NoId, a.wrote,
                      FALSE, NoMove)
             ELSE create(a)
             : a \in {StartCheck(S, ptype, iface, f)} })

\* ----------------------------------------------------------- stop_persona
\* a stop that reads the process id after it has stopped the container.
CapturedPidLate(before, after, cid, f) ==
    IF f.reload = "ok" THEN PidOf(after, cid) ELSE 0

\* Lines 310-315, run before container.stop(): the process id of the
\* container as it is then (before), None (0 here) when the reload raises.
CapturedPid(before, after, cid, f) ==
    IF f.reload = "ok" THEN PidOf(before, cid) ELSE 0

\* the calls of lines 310-363 in the order they are made; return_to_host is
\* called when `pid and pid > 0` (line 327).
StopSteps(pid) ==
    <<"pid", "stop">> \o (IF pid > 0 THEN <<"return">> ELSE <<>>)
        \o <<"remove", "records", "save">>

\* stop_persona(container_id=cid) under outcomes f.
StopPersona(S, cid, f) ==
    LET S0 == [S EXCEPT !.client = TRUE]
        matches == {i \in DOMAIN S.interfaces : S.interfaces[i].container_id = cid}
        iface == IF matches # {} THEN CHOOSE i \in matches : TRUE ELSE "wlan_sim"
        S1 == IF f.stop = "ok" THEN StopContainer(S0, cid) ELSE S0
        pid == CapturedPid(S.containers, S1.containers, cid, f)
        alive == PidOf(S1.containers, cid) # 0
        back == ReturnToHost(S1.loc, S1.ifname, iface, pid, alive,
                             f.t1, f.phy2, f.t2)
        S2 == IF pid > 0 THEN [S1 EXCEPT !.loc = back.loc] ELSE S1
        S3 == IF f.remove = "ok" /\ CanRemove(S2, cid)
              THEN RemoveContainer(S2, cid) ELSE S2
        P4 == Restrict(S3.personas, DOMAIN S3.personas \ {cid})
        I4 == Restrict(S3.interfaces, DOMAIN S3.interfaces \ {iface})
        S4 == [S3 EXCEPT !.personas = P4, !.interfaces = I4,
                         !.disk = SaveState(P4, I4, S3.disk, f.save)]
        res(S5, ok, msg, wrote, ret) ==
            [S |-> S5, ok |-> ok, msg |-> msg, wrote |-> wrote,
             returned |-> ret, iface |-> iface,
             ret |-> IF ret THEN ReturnOutcome(back) ELSE "none",
             up |-> ret /\ back.up,
             pid |-> IF wrote THEN pid ELSE 0,
             steps |-> IF wrote THEN StopSteps(pid) ELSE <<>>]
    IN IF ~EnsureClient(S.client, f.ping) THEN res(S, FALSE, "no_docker", FALSE, FALSE)
       ELSE IF f.get = "api" THEN res(S0, FALSE, "error", FALSE, FALSE)
       ELSE IF cid \notin DOMAIN S.containers
       THEN res(S0, FALSE, "not_found", FALSE, FALSE)
       ELSE res(S4, TRUE, "stopped", TRUE, pid > 0)

\* stop_persona in the three stretches a request thread runs it in.
\* Lines 284-315: the container is looked up, its interface read from the
\* state and its process id captured.
StopLookup(S, cid, f) ==
    LET S0 == [S EXCEPT !.client = TRUE]
        matches == {i \in DOMAIN S.interfaces : S.interfaces[i].container_id = cid}
        iface == IF matches # {} THEN CHOOSE i \in matches : TRUE ELSE "wlan_sim"
        res(S5, msg, pid) == [S |-> S5, msg |-> msg, iface |-> iface, pid |-> pid]
    IN IF ~EnsureClient(S.client, f.ping) THEN res(S, "no_docker", 0)
       ELSE IF f.get = "api" THEN res(S0, "error", 0)
       ELSE IF cid \notin DOMAIN S.containers THEN res(S0, "not_found", 0)
       ELSE res(S0, "found", CapturedPid(S.containers, S.containers, cid, f))

\* Lines 317-354: the container is stopped, the interface returned (for a
\* captured pid) and the container removed; a container that has gone in
\* the meantime makes stop and remove raise NotFound, which is caught.
StopHalt(S, cid, iface, pid, f) ==
    LET S1 == IF f.stop = "ok" THEN StopContainer(S, cid) ELSE S
        alive == PidOf(S1.containers, cid) # 0
        back == ReturnToHost(S1.loc, S1.ifname, iface, pid, alive,
                             f.t1, f.phy2, f.t2)
        S2 == IF pid > 0 THEN [S1 EXCEPT !.loc = back.loc] ELSE S1
    IN IF f.remove = "ok" /\ CanRemove(S2, cid) THEN RemoveContainer(S2, cid)
       ELSE S2

\* Lines 356-363: the records are deleted by the names the thread holds,
\* and the state saved.
StopDelete(S, cid, iface, f) ==
    LET P4 == Restrict(S.personas, DOMAIN S.personas \ {cid})
        I4 == Restrict(S.interfaces, DOMAIN S.interfaces \ {iface})
    IN [S EXCEPT !.personas = P4, !.interfaces = I4,
                 !.disk = SaveState(P4, I4, S.disk, f.save)]

\* ------------------------------------------------------------ cleanup_all
\* list_personas lines 434-469, after its reconciliation: the status of every
\* container it reports.  Nothing when the runtime is unreachable or the
\* listing raises; a container whose reload raises is left out (line 463).
ListedPersonas(S, f) ==
    IF ~EnsureClient(S.client, f.ping) \/ ~f.list THEN EmptyMap
    ELSE [c \in {x \in DOMAIN ListAll(S.containers) : f.reload = "ok"} |->
            S.containers[c].status]

\* the personas cleanup_all stops: those listed as running (line 529).
ToStop(listing) == {c \in DOMAIN listing : listing[c] = "running"}

\* the orders in which a listing can report a set of containers.
Orders(T) ==
    {o \in [1..Cardinality(T) -> T] :
        \A j, k \in 1..Cardinality(T) : o[j] = o[k] => j = k}

\* Lines 528-535: stop_persona for each listed persona in turn, whatever the
\* one before returned; one result entry per call.
RECURSIVE StopEach(_, _, _, _)
StopEach(S, order, f, results) ==
    IF order = <<>> THEN [S |-> S, results |-> results]
    ELSE The({ StopEach(r.S, Tail(order), f, results @@ (Head(order) :> r.ok))
               : r \in {StopPersona(S, Head(order), f)} })

\* ---------------------------------------------------------- fault scenarios
\* One handler run sees no fault, one failing external call, the runtime
\* down for the whole run, or a failing call followed by a failing
\* compensation (return to host, container teardown).
SingleFaults ==
    { [NoFault EXCEPT !.list = FALSE],
      [NoFault EXCEPT !.probe = "err"],
      [NoFault EXCEPT !.create = "image"],
      [NoFault EXCEPT !.create = "api"],
      [NoFault EXCEPT !.cstart = "api"],
      [NoFault EXCEPT !.early = "exit"],
      [NoFault EXCEPT !.early = "gone"],
      [NoFault EXCEPT !.get = "api"],
      [NoFault EXCEPT !.reload = "err"],
      [NoFault EXCEPT !.phy = "fail"],
      [NoFault EXCEPT !.phy = "fallback"],
      [NoFault EXCEPT !.down = "fail"],
      [NoFault EXCEPT !.down = "timeout"],
      [NoFault EXCEPT !.mv = "fail"],
      [NoFault EXCEPT !.mv = "timeout"],
      [NoFault EXCEPT !.show = "timeout"],
      [NoFault EXCEPT !.ren = "fail"],
      [NoFault EXCEPT !.ren = "timeout"],
      [NoFault EXCEPT !.up = "fail"],
      [NoFault EXCEPT !.up = "timeout"],
      [NoFault EXCEPT !.stop = "err"],
      [NoFault EXCEPT !.remove = "err"] }

\* a failing attach whose compensation (return to host, teardown of the
\* container) fails too, and a stop whose return to host fails.
DoubleFaults ==
    { [g EXCEPT !.stop = "err"] : g \in
        {[NoFault EXCEPT !.mv = "fail"], [NoFault EXCEPT !.ren = "fail"]} } \cup
    { [NoFault EXCEPT !.mv = "fail", !.remove = "err"],
      [NoFault EXCEPT !.ren = "fail", !.t1 = "fail"],
      [NoFault EXCEPT !.ren = "fail", !.t1 = "timeout"],
      [NoFault EXCEPT !.phy = "fallback", !.phy2 = "fallback"],
      [NoFault EXCEPT !.stop = "err", !.t1 = "fail"],
      [NoFault EXCEPT !.stop = "err", !.t1 = "timeout"] }

\* the state file cannot be written.
SaveFaults == { [NoFault EXCEPT !.save = sv] : sv \in SaveOutcomes \ {"ok"} }

Faults == {NoFault, DockerDown} \cup SingleFaults \cup DoubleFaults \cup SaveFaults

\* the scenarios that differ in a call the operation makes.
Calling(calls) ==
    {DockerDown} \cup
    {f \in Faults : \A k \in DOMAIN NoFault \ calls : f[k] = NoFault[k]}
StartFaults ==
    Calling({"ping", "list", "probe", "create", "cstart", "early", "get", "phy",
             "down", "mv", "show", "ren", "up", "t1", "phy2", "t2", "stop",
             "remove", "save"})
StopFaults ==
    Calling({"ping", "get", "reload", "stop", "t1", "phy2", "t2", "remove", "save"})
ListFaults == Calling({"ping", "list", "save"})

\* ------------------------------------------------------------- the state
Cur == [personas |-> personas, interfaces |-> interfaces, disk |-> disk,
        client |-> client, imClient |-> imClient, containers |-> containers,
        nextId |-> nextId, loc |-> loc, ifname |-> ifname]

Becomes(S) ==
    /\ personas' = S.personas
    /\ interfaces' = S.interfaces
    /\ disk' = S.disk
    /\ client' = S.client
    /\ imClient' = S.imClient
    /\ containers' = S.containers
    /\ nextId' = S.nextId
    /\ loc' = S.loc
    /\ ifname' = S.ifname

\* A state file left by an earlier run of the manager, whose container is
\* gone: empty, or a persona (bound to wlan0) with three interface records:
\* wlan0's lacks the container name, wlan1's is complete, eth0's lacks the
\* container id.
LegacyName == ContainerName("good", "wlan0", -1)
LegacyPersona == [container_name |-> LegacyName, persona_type |-> "good",
                  interface |-> "wlan0"]
LegacyRecord(id, name) ==
    [container_id |-> id, container_name |-> name, persona_type |-> "good"]
One(k, v) == [x \in {k} |-> v]
InitDocs ==
    { [ok |-> TRUE, personas |-> EmptyMap, interfaces |-> EmptyMap],
      [ok |-> TRUE, personas |-> One(LegacyId, LegacyPersona),
       interfaces |->
         [i \in Ifaces |->
            IF i = "wlan1" THEN LegacyRecord(LegacyId, LegacyName)
            ELSE IF i = "wlan0" THEN LegacyRecord(LegacyId, NoName)
            ELSE LegacyRecord(NoId, LegacyName)]] }

Threads == {"t1", "t2"}
\* a request thread's arguments; t: the second its container name carries;
\* ov: another request was inside start_persona while this one was.
NoRequest == [ptype |-> "-", iface |-> "-", t |-> 0, ov |-> FALSE]

\* a request thread that has no state file open.
NoBuf == [ok |-> FALSE, personas |-> EmptyMap, interfaces |-> EmptyMap]

\* the stop thread's locals: container_id, interface and pid of stop_persona.
NoStop == [pc |-> "idle", cid |-> NoId, iface |-> "-", pid |-> 0]

\* PersonaManager.__init__ / InterfaceManager.__init__: the state is loaded,
\* no client is connected; no persona container exists and every interface
\* is in the root namespace under its own name.
Init ==
    /\ disk \in InitDocs
    /\ personas = LoadState(disk).personas
    /\ interfaces = LoadState(disk).interfaces
    /\ client = FALSE
    /\ imClient = FALSE
    /\ containers = EmptyMap
    /\ nextId = 1
    /\ loc = [i \in Ifaces |-> HostNs]
    /\ ifname = [i \in Ifaces |-> i]
    /\ now = 0
    /\ last = NoLast
    /\ nfaults = 0
    /\ nenv = 0
    /\ tpc = [t \in Threads |-> "idle"]
    /\ treq = [t \in Threads |-> NoRequest]
    /\ tcid = [t \in Threads |-> NoId]
    /\ tstop = NoStop
    /\ tbuf = [t \in Threads |-> NoBuf]

\* ------------------------------------------------------------- operations
\* a handler run under outcomes f spends one of the behaviour's faulty runs.
Spend(f) ==
    /\ f # NoFault => nfaults < MaxFaults
    /\ nfaults' = IF f = NoFault THEN nfaults ELSE nfaults + 1
    /\ UNCHANGED nenv

\* api_start_persona lines 282-298: fields the request lacks are taken from
\* the stored configuration (both, when either is missing), then the fields
\* the persona type needs are required; ok: start_persona is called, with
\* ssid and password.
ApiCredentials(ptype, ssid, password, cfg) ==
    LET c1 == IF ssid = NoValue \/ password = NoValue THEN cfg
              ELSE [ssid |-> ssid, password |-> password]
        pass(s, p) == [ok |-> TRUE, msg |-> "-", ssid |-> s, password |-> p]
        reject(msg) == [ok |-> FALSE, msg |-> msg, ssid |-> NoValue,
                        password |-> NoValue]
    IN IF ptype = "wired" THEN pass(NoValue, NoValue)
       ELSE IF ptype = "bad"
       THEN IF c1.ssid = NoValue THEN reject("ssid_required")
            ELSE pass(c1.ssid, NoValue)
       ELSE IF ptype = "good"
       THEN IF c1.ssid = NoValue \/ c1.password = NoValue
            THEN reject("credentials_required")
            ELSE pass(c1.ssid, c1.password)
       ELSE pass(c1.ssid, c1.password)

\* POST /api/personas with the fields of the request, cfg being what
\* read_config() returns: the field check, then start_persona as one
\* uninterrupted call; a call that waits out the start-up grace period
\* returns that much later.
ApiStartPersona(ptype, iface, ssid, password, cfg, f) ==
    /\ nextId <= MaxContainers
    /\ Spend(f)
    /\ \E a \in {ApiCredentials(ptype, ssid, password, cfg)} :
          IF ~a.ok
          THEN /\ last' = [NoLast EXCEPT !.op = "start", !.iface = iface,
                             !.ok = FALSE, !.msg = a.msg, !.ptype = ptype,
                             !.ssid = ssid, !.password = password]
               /\ UNCHANGED <<mgrVars, worldVars>>
          ELSE \E r \in {StartPersona(Cur, ptype, iface, a.ssid, a.password,
                                      now, f)} :
                  /\ Becomes(r.S)
                  /\ last' = [NoLast EXCEPT !.op = "start",
                                !.iface = iface, !.cid = r.cid, !.ok = r.ok,
                                !.msg = r.msg, !.why = r.why, !.diag = r.diag,
                                !.created = r.created, !.wrote = r.wrote,
                                !.listed = r.listed, !.ptype = ptype,
                                !.ssid = ssid, !.password = password,
                                !.phy = r.phy, !.moved = r.moved,
                                !.back = r.back, !.ret = r.ret,
                                !.down = r.down, !.up = r.up,
                                !.probe = r.probe]
                  /\ now' = IF r.slept THEN now + StartupGrace ELSE now
                  /\ now' <= MaxTime
    /\ UNCHANGED threadVars

\* the fields a request of the dashboard carries for a persona type: the
\* network identifier and, for a good persona, the credential.
Supplied(ptype) ==
    [ssid |-> IF ptype \in {"good", "bad"} THEN "TestNet" ELSE NoValue,
     password |-> IF ptype = "good" THEN "secret" ELSE NoValue]

\* a start request that carries what its persona type needs, no
\* configuration being stored.
Start(ptype, iface, f) ==
    ApiStartPersona(ptype, iface, Supplied(ptype).ssid, Supplied(ptype).password,
                    [ssid |-> NoValue, password |-> NoValue], f)

\* DELETE /api/personas/<id> -> stop_persona(container_id).
Stop(cid, f) ==
    /\ Spend(f)
    /\ \E r \in {StopPersona(Cur, cid, f)} :
          /\ Becomes(r.S)
          /\ last' = [NoLast EXCEPT !.op = "stop", !.cid = cid, !.ok = r.ok,
                        !.msg = r.msg, !.wrote = r.wrote, !.iface = r.iface,
                        !.why = IF r.returned THEN "returned" ELSE "-",
                        !.ret = r.ret, !.up = r.up, !.pid = r.pid,
                        !.steps = r.steps]
    /\ UNCHANGED <<now, threadVars>>

\* GET /api/personas -> list_personas: reconciliation, then a listing that
\* changes nothing but the client connection.
ListPersonas(f) ==
    /\ Spend(f)
    /\ \E r \in {CleanupStaleState(personas, interfaces, containers, client,
                                      f.ping, f.list)} :
          /\ personas' = r.personas
          /\ interfaces' = r.interfaces
          /\ disk' = IF r.wrote
                     THEN SaveState(r.personas, r.interfaces, disk, f.save)
                     ELSE disk
          /\ client' = EnsureClient(r.client, f.ping)
          /\ last' = [NoLast EXCEPT !.op = "list", !.wrote = r.wrote,
                        !.listed = r.listed, !.raised = r.raised]
    /\ UNCHANGED <<imClient, worldVars, threadVars>>

\* POST /shutdown -> cleanup_all: list_personas (reconciliation, listing),
\* then a stop of every persona listed as running.
CleanupAll(f) ==
    /\ Spend(f)
    /\ \E a \in {CleanupStaleState(personas, interfaces, containers, client,
                                      f.ping, f.list)} :
       \E S1 \in {[Cur EXCEPT
                      !.personas = a.personas, !.interfaces = a.interfaces,
                      !.disk = IF a.wrote
                               THEN SaveState(a.personas, a.interfaces, disk,
                                              f.save)
                               ELSE disk,
                      !.client = EnsureClient(a.client, f.ping)]} :
       \E order \in Orders(ToStop(ListedPersonas(S1, f))) :
       \E r \in {StopEach(S1, order, f, EmptyMap)} :
          /\ Becomes(r.S)
          /\ last' = [NoLast EXCEPT !.op = "cleanup", !.listed = a.listed,
                        !.wrote = a.wrote \/ order # <<>>,
                        !.results = r.results]
    /\ UNCHANGED <<now, threadVars>>

\* ------------------------------------------------------------ environment
\* an environment event spends one of the behaviour's.
EnvEvent ==
    /\ nenv < MaxEnv
    /\ nenv' = nenv + 1
    /\ last' = [NoLast EXCEPT !.op = "env"]
    /\ UNCHANGED <<nfaults, threadVars>>

\* `docker rm -f` by someone else: the container is gone, its namespace too.
ExternalRemove(c) ==
    /\ c \in DOMAIN containers
    /\ LET S == RemoveContainer(StopContainer(Cur, c), c)
       IN Becomes(S)
    /\ EnvEvent
    /\ UNCHANGED now

\* the container's process ends (crash, `docker kill`): it exists, exited.
ContainerExit(c) ==
    /\ c \in DOMAIN containers
    /\ containers[c].status = "running"
    /\ Becomes(StopContainer(Cur, c))
    /\ EnvEvent
    /\ UNCHANGED now

\* manual recovery: the operator gives a device in the root namespace its
\* own name back.
OperatorRecover(i) ==
    /\ loc[i] = HostNs
    /\ ifname[i] # i
    /\ ifname' = [ifname EXCEPT ![i] = i]
    /\ EnvEvent
    /\ UNCHANGED <<mgrVars, containers, nextId, loc, now>>

\* a second passes.
Tick ==
    /\ now < MaxTime
    /\ now' = now + 1
    /\ EnvEvent
    /\ UNCHANGED <<mgrVars, containers, nextId, loc, ifname>>

\* the manager process is restarted: the state is loaded from the file.
Restart ==
    /\ personas' = LoadState(disk).personas
    /\ interfaces' = LoadState(disk).interfaces
    /\ client' = FALSE
    /\ imClient' = FALSE
    /\ EnvEvent
    /\ UNCHANGED <<disk, worldVars>>

Next ==
    \/ \E ptype \in RequestTypes, iface \in Ifaces, f \in StartFaults :
          Start(ptype, iface, f)
    \/ \E cid \in ContainerIds, f \in StopFaults : Stop(cid, f)
    \/ \E f \in ListFaults : ListPersonas(f)
    \/ \E c \in ContainerIds : ExternalRemove(c)
    \/ \E c \in ContainerIds : ContainerExit(c)
    \/ \E i \in Ifaces : OperatorRecover(i)
    \/ Tick
    \/ Restart

Spec == Init /\ [][Next]_vars

\* ------------------------------------------------------ concurrent requests
\* The development server serves every request on a thread of its own and
\* nothing serialises start_persona: a request thread can be preempted around
\* each call to the container runtime.  A thread runs lines 136-173, then
\* lines 175-224, then lines 226-263.
InStart(t) == tpc[t] \in {"create", "attach"}

\* lines 136-173 on thread t: type check, reconciliation, availability.
TCheck(t, ptype, iface, f) ==
    /\ tpc[t] = "idle"
    /\ Spend(f)
    /\ \E a \in {StartCheck(Cur, ptype, iface, f)} :
          /\ Becomes(a.S)
          /\ tpc' = [tpc EXCEPT ![t] = IF a.decision = "proceed" THEN "create"
                                       ELSE "failed"]
          /\ treq' = [u \in Threads |->
                        IF u = t
                        THEN [ptype |-> ptype, iface |-> iface, t |-> 0,
                              ov |-> a.decision = "proceed"
                                     /\ \E v \in Threads \ {t} : InStart(v)]
                        ELSE [treq[u] EXCEPT
                                !.ov = @ \/ (a.decision = "proceed" /\ InStart(u))]]
    /\ UNCHANGED <<now, last, tcid, tstop, tbuf>>

\* lines 175-224 on thread t: the name is made, the container created and
\* started.
TCreate(t, f) ==
    /\ tpc[t] = "create"
    /\ Spend(f)
    /\ \E b \in {StartCreate(Cur, treq[t].ptype, treq[t].iface,
                              Supplied(treq[t].ptype).ssid,
                              Supplied(treq[t].ptype).password, now, f)} :
          /\ Becomes(b.S)
          /\ tpc' = [tpc EXCEPT ![t] = IF b.ok THEN "attach" ELSE "failed"]
          /\ tcid' = [tcid EXCEPT ![t] = b.created]
    /\ treq' = [treq EXCEPT ![t].t = now]
    /\ UNCHANGED <<now, last, tstop, tbuf>>

\* lines 226-263 on thread t: the move, then the records or the teardown.
TAttach(t, f) ==
    /\ tpc[t] = "attach"
    /\ Spend(f)
    /\ \E c \in {StartAttach(Cur, treq[t].ptype, treq[t].iface, treq[t].t,
                              tcid[t], f)} :
          /\ Becomes(c.S)
          /\ tpc' = [tpc EXCEPT ![t] = IF c.ok THEN "started" ELSE "failed"]
    /\ UNCHANGED <<now, last, treq, tcid, tstop, tbuf>>

NextConc ==
    \/ \E t \in Threads, ptype \in RequestTypes, iface \in Ifaces,
          f \in Calling({"ping", "list", "probe", "save"}) :
          TCheck(t, ptype, iface, f)
    \/ \E t \in Threads, f \in Calling({"ping", "create", "cstart", "early"}) :
          TCreate(t, f)
    \/ \E t \in Threads,
          f \in Calling({"ping", "get", "phy", "down", "mv", "show", "ren", "up",
                         "t1", "phy2", "t2", "stop", "remove", "save"}) :
          TAttach(t, f)
    \/ Tick

SpecConc == Init /\ [][NextConc]_vars

\* ----------------------------------------------------- listing requests
\* a discovery run under tool outcomes g spends one of the faulty runs.
SpendTools(g) ==
    /\ g # NoToolFault => nfaults < MaxFaults
    /\ nfaults' = IF g = NoToolFault THEN nfaults ELSE nfaults + 1
    /\ UNCHANGED <<nenv, mgrVars, worldVars, threadVars>>

\* GET /api/interfaces with the managers constructed.
ApiInterfaces(g) ==
    /\ SpendTools(g)
    /\ last' = [NoLast EXCEPT !.op = "ifaces",
                  !.shown = MarkProtected(
                      ListAvailableInterfaces(loc, ifname, TRUE, g),
                      ProtectedIface(loc, ifname, g))]

\* GET /api/interfaces in a process that could not construct its managers
\* (no manager operation has run in it): the basic listing, or an error
\* when `ip link show` fails.
ApiInterfacesBasic(g) ==
    /\ last.op \in {"init", "basic"}
    /\ SpendTools(g)
    /\ last' = [NoLast EXCEPT !.op = "basic", !.ok = g.iplink,
                  !.shown = IF g.iplink
                            THEN MarkProtected(BasicListing(loc, ifname),
                                               ProtectedIface(loc, ifname, g))
                            ELSE EmptyMap]

\* GET /status: the interfaces as list_available_interfaces() returns them.
Status(g) ==
    /\ SpendTools(g)
    /\ last' = [NoLast EXCEPT !.op = "status",
                  !.shown = ListAvailableInterfaces(loc, ifname, TRUE, g)]

\* the dashboard's requests: listings, starts and stops, while containers
\* end and the operator renames devices.
NextDisc ==
    \/ \E g \in ToolFaults : ApiInterfaces(g)
    \/ \E g \in ToolFaults : ApiInterfacesBasic(g)
    \/ \E g \in ToolFaults : Status(g)
    \/ \E ptype \in RequestTypes, iface \in Ifaces,
          f \in Calling({"ren", "up", "t1", "stop", "remove"}) :
          Start(ptype, iface, f)
    \/ \E cid \in ContainerIds, f \in Calling({"stop", "t1", "remove"}) :
          Stop(cid, f)
    \/ \E c \in ContainerIds : ContainerExit(c)
    \/ \E i \in Ifaces : OperatorRecover(i)

SpecDisc == Init /\ [][NextDisc]_vars

\* ------------------------------------------------ requests and their fields
\* the dashboard's start requests with every choice of fields and of stored
\* configuration, stops, and containers removed from outside.
AllTypes == PersonaTypes \cup RequestTypes
NextCred ==
    \/ \E ptype \in AllTypes, iface \in Ifaces, ssid \in Ssids,
          password \in Passwords, cfg \in Configs,
          f \in Calling({"mv"}) :
          ApiStartPersona(ptype, iface, ssid, password, cfg, f)
    \/ \E cid \in ContainerIds, f \in Calling({"stop"}) : Stop(cid, f)
    \/ \E c \in ContainerIds : ExternalRemove(c)
    \/ \E i \in Ifaces : OperatorRecover(i)

SpecCred == Init /\ [][NextCred]_vars

\* ------------------------------------------- a stop beside other requests
\* DELETE /api/personas/<id> on a thread of its own: nothing serialises it
\* with the other requests, which run between its calls to the runtime (a
\* start request is served as a whole between two of them), while containers
\* end or are removed from outside and a released device is given its name
\* back.
SLookup(cid, f) ==
    /\ tstop.pc \in {"idle", "done"}
    /\ Spend(f)
    /\ \E r \in {StopLookup(Cur, cid, f)} :
          /\ Becomes(r.S)
          /\ tstop' = [pc |-> IF r.msg = "found" THEN "halt" ELSE "done",
                       cid |-> cid, iface |-> r.iface, pid |-> r.pid]
    /\ UNCHANGED <<now, last, tpc, treq, tcid, tbuf>>

SHalt(f) ==
    /\ tstop.pc = "halt"
    /\ Spend(f)
    /\ Becomes(StopHalt(Cur, tstop.cid, tstop.iface, tstop.pid, f))
    /\ tstop' = [tstop EXCEPT !.pc = "delete"]
    /\ UNCHANGED <<now, last, tpc, treq, tcid, tbuf>>

SDelete(f) ==
    /\ tstop.pc = "delete"
    /\ Spend(f)
    /\ Becomes(StopDelete(Cur, tstop.cid, tstop.iface, f))
    /\ tstop' = [tstop EXCEPT !.pc = "done"]
    /\ UNCHANGED <<now, last, tpc, treq, tcid, tbuf>>

NextRace ==
    \/ \E ptype \in PersonaTypes, iface \in Ifaces,
          f \in Calling({"list", "probe", "ren"}) :
          Start(ptype, iface, f)
    \/ \E cid \in ContainerIds, f \in Calling({"get", "reload"}) : SLookup(cid, f)
    \/ \E f \in Calling({"stop", "t1", "remove"}) : SHalt(f)
    \/ \E f \in Calling({"save"}) : SDelete(f)
    \/ \E c \in ContainerIds : ContainerExit(c)
    \/ \E c \in ContainerIds : ExternalRemove(c)
    \/ \E i \in Ifaces : OperatorRecover(i)

SpecRace == Init /\ [][NextRace]_vars

\* --------------------------------------------- concurrent state writes
\* _save_state on a request thread: open(..., 'w') truncates the file, and
\* json.dump writes the document of that moment through the file object's
\* buffer, which reaches the file when the `with` block closes it.  A write
\* of `buf` at offset 0 replaces what the file holds when it is at least as
\* long (it has every record the file has); a shorter one leaves the tail of
\* the longer document behind it, which no longer parses.
Covers(buf, d) ==
    /\ DOMAIN d.personas \subseteq DOMAIN buf.personas
    /\ DOMAIN d.interfaces \subseteq DOMAIN buf.interfaces
Overlay(d, buf) == IF ~d.ok \/ Covers(buf, d) THEN buf ELSE TornDoc

\* lines 226-258 on thread t: the move, then the teardown or both records
\* in the shared dictionary (the state file is not yet touched).
TMove(t, f) ==
    /\ tpc[t] = "attach"
    /\ Spend(f)
    /\ \E c \in {StartAttach(Cur, treq[t].ptype, treq[t].iface, treq[t].t,
                              tcid[t], f)} :
          /\ Becomes([c.S EXCEPT !.disk = disk])
          /\ tpc' = [tpc EXCEPT ![t] = IF c.ok THEN "save" ELSE "failed"]
    /\ UNCHANGED <<now, last, treq, tcid, tstop, tbuf>>

\* lines 109-110 on thread t: the file is opened (and truncated) and the
\* document serialised.
TOpen(t) ==
    /\ tpc[t] = "save"
    /\ disk' = TornDoc
    /\ tbuf' = [tbuf EXCEPT ![t] = Document(personas, interfaces)]
    /\ tpc' = [tpc EXCEPT ![t] = "close"]
    /\ UNCHANGED <<personas, interfaces, client, imClient, worldVars, last,
                   nfaults, nenv, treq, tcid, tstop>>

\* line 111 on thread t: the file is closed, the buffer written; line 263
\* returns success.
TClose(t) ==
    /\ tpc[t] = "close"
    /\ disk' = Overlay(disk, tbuf[t])
    /\ tbuf' = [tbuf EXCEPT ![t] = NoBuf]
    /\ tpc' = [tpc EXCEPT ![t] = "started"]
    /\ UNCHANGED <<personas, interfaces, client, imClient, worldVars, last,
                   nfaults, nenv, treq, tcid, tstop>>

NextSave ==
    \/ \E t \in Threads, ptype \in PersonaTypes, iface \in Ifaces,
          f \in Calling({"list"}) :
          TCheck(t, ptype, iface, f)
    \/ \E t \in Threads, f \in Calling({"create"}) : TCreate(t, f)
    \/ \E t \in Threads, f \in Calling({"mv", "ren"}) : TMove(t, f)
    \/ \E t \in Threads : TOpen(t)
    \/ \E t \in Threads : TClose(t)

SpecSave == Init /\ [][NextSave]_vars

\* ------------------------------------------------ discovery on any host
\* the device names a host can have: loopback, the runtime's bridge, a bridge
\* over a wireless device, a monitor device, wireless and wired devices, and
\* devices that carry the names given inside containers.
DiscNames == {"lo", "docker0", "br-wlan", "mon0", "wlan0", "wlan1", "wlan_sim",
              "eth0", "eth_sim"}

\* the devices of these names that are wireless.
WirelessKind == {"mon0", "wlan0", "wlan1", "wlan_sim"}

\* list_available_interfaces(include_ethernet) on a host with the devices
\* `names`.
Discover(names, include_ethernet, g) ==
    /\ SpendTools(g)
    /\ last' = [NoLast EXCEPT !.op = "discover",
                  !.include_ethernet = include_ethernet,
                  !.shown = DiscoverInterfaces(names, names \cap WirelessKind,
                                               include_ethernet, g)]

NextNames ==
    \E names \in SUBSET DiscNames, include_ethernet \in BOOLEAN,
       g \in ToolFaults :
       Discover(names, include_ethernet, g)

SpecNames == Init /\ [][NextNames]_vars

\* ------------------------------------------- other containers' stop
\* `docker run` by someone else: a container that is no persona runs on the
\* same runtime.
ForeignRun ==
    /\ nextId <= MaxContainers
    /\ ~ExistsByName(containers, ForeignName)
    /\ containers' = [x \in DOMAIN containers \cup {nextId} |->
                        IF x = nextId
                        THEN [name |-> ForeignName, status |-> "running",
                              env |-> EnvVars(NoValue, NoValue)]
                        ELSE containers[x]]
    /\ nextId' = nextId + 1
    /\ EnvEvent
    /\ UNCHANGED <<personas, interfaces, disk, client, imClient, loc, ifname,
                   now>>

NextForeign ==
    \/ ForeignRun
    \/ \E ptype \in PersonaTypes, iface \in Ifaces, f \in Calling({"ren"}) :
          Start(ptype, iface, f)
    \/ \E cid \in ContainerIds, f \in Calling({"stop", "remove", "t1"}) :
          Stop(cid, f)
    \/ \E f \in Calling({"list"}) : ListPersonas(f)
    \/ \E c \in ContainerIds : ContainerExit(c)
    \/ Tick

SpecForeign == Init /\ [][NextForeign]_vars

\* ------------------------------------------------------------- shutdown
\* personas are started, their containers end or are removed from outside,
\* the manager is restarted, and a shutdown stops what runs.
ShutdownFaults ==
    Calling({"ping", "list", "reload", "get", "stop", "t1", "remove", "save"})
NextShut ==
    \/ \E ptype \in PersonaTypes, iface \in Ifaces,
          f \in Calling({"ren", "stop", "save"}) :
          Start(ptype, iface, f)
    \/ \E f \in ShutdownFaults : CleanupAll(f)
    \/ \E c \in ContainerIds : ContainerExit(c)
    \/ \E c \in ContainerIds : ExternalRemove(c)
    \/ \E i \in Ifaces : OperatorRecover(i)
    \/ Restart

SpecShut == Init /\ [][NextShut]_vars

\* ================================================================ claims
\* the containers an interface record refers to (by id or by name) and exist.
RecordHolders(i) ==
    IF i \notin DOMAIN interfaces THEN {}
    ELSE {c \in DOMAIN containers :
            \/ interfaces[i].container_id = c
            \/ interfaces[i].container_name = containers[c].name}

\* the containers that hold interface i: by record, or in the kernel.
Holders(i) == RecordHolders(i) \cup {c \in DOMAIN containers : loc[i] = NsOf(c)}

\* the interface records that refer to container c (by id or by name).
RecordsOf(c) ==
    {i \in DOMAIN interfaces :
        \/ interfaces[i].container_id = c
        \/ c \in DOMAIN containers /\ interfaces[i].container_name = containers[c].name}

\* C1: in every state reached by starts, stops, reconciliations and external
\* removals run one at a time, each interface is held by at most one existing
\* container, and each existing container is referred to by at most one
\* interface record.
C1_OneLiveAssignment ==
    /\ \A i \in Ifaces : Cardinality(Holders(i)) <= 1
    /\ \A c \in DOMAIN containers : Cardinality(RecordsOf(c)) <= 1

\* C1: a start on an interface that a container holds has been refused.
C1_Witness ==
    /\ last.op = "start"
    /\ ~last.ok
    /\ last.iface \in Ifaces
    /\ Holders(last.iface) # {}
    /\ Cardinality(DOMAIN containers) = 1

\* C2: start requests for one interface exclude each other: of two that were
\* inside start_persona together, at most one creates a container and at most
\* one returns success.
C2_MutualExclusion ==
    \A t \in Threads, u \in Threads :
        (t # u /\ treq[t].iface = treq[u].iface /\ treq[t].ov /\ treq[u].ov) =>
            /\ ~(tcid[t] # NoId /\ tcid[u] # NoId)
            /\ ~(tpc[t] = "started" /\ tpc[u] = "started")

\* C3: a start (of a known type) on an interface whose record refers to an
\* existing container returns "already assigned", creates no container and
\* leaves the persona and interface records as they were.
C3_AlreadyAssigned ==
    [][(/\ last'.op = "start"
        /\ last'.msg # "unknown_type"
        /\ RecordHolders(last'.iface) # {})
       => (/\ last'.msg = "already_assigned"
           /\ last'.created = NoId
           /\ personas' = personas
           /\ interfaces' = interfaces)]_vars

\* C4: when a start that created a container returns failure, that
\* container no longer exists.
C4_NoOrphan ==
    (last.op = "start" /\ ~last.ok /\ last.created # NoId)
    => last.created \notin DOMAIN containers

\* C5: when the container was created and the radio move into its namespace
\* fails, the start returns failure with the tool's text, and neither map
\* has gained an entry.
C5_MoveFailure ==
    [][(last'.op = "start" /\ last'.why = "move_failed")
       => (/\ ~last'.ok
           /\ last'.msg = "move_failed"
           /\ last'.diag = "iw_stderr"
           /\ last'.cid = NoId
           /\ DOMAIN personas' \subseteq DOMAIN personas
           /\ DOMAIN interfaces' \subseteq DOMAIN interfaces)]_vars

\* C5: a start whose container was created has failed at the radio move.
C5_Witness ==
    /\ last.op = "start"
    /\ last.why = "move_failed"
    /\ last.created # NoId
    /\ last.diag = "iw_stderr"

\* C6: a start that returns failure leaves the system as it was: no new
\* container, the interface where and as it was, no record added, and the
\* record of every live assignment kept as it was.
C6_FailedStartRestores ==
    [][(last'.op = "start" /\ ~last'.ok)
       => (/\ DOMAIN containers' \subseteq DOMAIN containers
           /\ loc'[last'.iface] = loc[last'.iface]
           /\ ifname'[last'.iface] = ifname[last'.iface]
           /\ DOMAIN personas' \subseteq DOMAIN personas
           /\ DOMAIN interfaces' \subseteq DOMAIN interfaces
           /\ \A i \in DOMAIN interfaces :
                 RecordHolders(i) # {}
                 => i \in DOMAIN interfaces' /\ interfaces'[i] = interfaces[i])]_vars

\* C7: after a stop of a recorded persona has returned (the container runtime
\* having answered), neither the persona's record nor an interface record
\* that refers to it remains.
C7_StopFreesRecords ==
    [][(/\ last'.op = "stop"
        /\ last'.cid \in DOMAIN personas
        /\ last'.msg \notin {"no_docker", "error"})
       => (/\ last'.cid \notin DOMAIN personas'
           /\ \A i \in DOMAIN interfaces' :
                 interfaces'[i].container_id # last'.cid)]_vars

\* the recorded container of a persona record exists (by id or by name).
PersonaLive(c) ==
    \/ c \in DOMAIN containers
    \/ ExistsByName(containers, personas[c].container_name)

\* C8: after a reconciliation that could list the containers, every persona
\* record and every interface record that remains refers to a container that
\* exists; records that lack an id or a name are no exception.
C8_NoStaleAfterReconcile ==
    (last.op = "list" /\ last.listed)
    => (/\ \A c \in DOMAIN personas : PersonaLive(c)
        /\ \A i \in DOMAIN interfaces : RecordHolders(i) # {})

\* C9: right after a reconciliation that could list the containers, another
\* one over the same containers removes nothing and writes nothing.
C9_Idempotent ==
    (last.op = "list" /\ last.listed)
    => (\A r \in {CleanupStaleState(personas, interfaces, containers, client,
                                     TRUE, TRUE)} :
          /\ r.listed
          /\ r.personas = personas
          /\ r.interfaces = interfaces
          /\ ~r.wrote)

\* C9: a reconciliation has just removed records and written the state.
C9_Witness ==
    /\ last.op = "list"
    /\ last.listed
    /\ last.wrote
    /\ DOMAIN interfaces # {}

\* C10: a reconciliation that cannot reach the runtime or cannot list the
\* containers returns normally and changes neither the records in memory nor
\* the state file.
C10_ErrorNoChange ==
    [][(last'.op = "list" /\ ~last'.listed)
       => (/\ ~last'.raised
           /\ ~last'.wrote
           /\ personas' = personas
           /\ interfaces' = interfaces
           /\ disk' = disk)]_vars

\* C10: a reconciliation has failed to list while stale records were there.
C10_Witness ==
    /\ last.op = "list"
    /\ ~last.listed
    /\ \E c \in DOMAIN personas : ~PersonaLive(c)
    /\ \E i \in DOMAIN interfaces : RecordHolders(i) = {}

\* the interface a persona record is bound to, when that interface's record
\* refers to the persona's container by id.
BoundIface(P, I, c) ==
    {i \in DOMAIN I : P[c].interface = i /\ I[i].container_id = c}

\* what a list_personas step does for the recorded personas whose container
\* no longer exists: the persona's record and the record of its interface are
\* gone, and a start of a known type on that interface is not answered
\* "already assigned", whatever the external calls of that start do.
HealsRemoved ==
    \A c \in DOMAIN personas :
        c \notin DOMAIN containers
        => /\ c \notin DOMAIN personas'
           /\ \A i \in BoundIface(personas, interfaces, c) :
                 /\ i \notin DOMAIN interfaces'
                 /\ \A ptype \in PersonaTypes, f \in StartFaults :
                       StartCheck(Cur', ptype, i, f).decision # "already_assigned"

Protected == RouteDev(loc, ifname)

\* C12: in every interface listing returned to the dashboard (GET
\* /api/interfaces with or without the managers, GET /status), whatever the
\* tools do, the entry of the device that carries the host's default route
\* says neither available nor assignable.
C12_ProtectedNotAssignable ==
    (last.op \in {"ifaces", "basic", "status"} /\ Protected \in DOMAIN last.shown)
    => last.shown[Protected].flags \cap {"available", "assignable"} = {}

\* C13: a start that names the device carrying the host's default route
\* neither moves that device out of the root namespace nor writes an
\* interface record for it.
C13_ProtectedNeverHanded ==
    [][(last'.op = "start" /\ Protected # "none" /\ last'.iface = Protected)
       => (/\ loc'[Uplink] = HostNs
           /\ last'.iface \in DOMAIN interfaces'
              => /\ last'.iface \in DOMAIN interfaces
                 /\ interfaces'[last'.iface] = interfaces[last'.iface])]_vars

\* a request lacks a field its persona type needs: a good persona the
\* network identifier and the credential, a bad one the network identifier.
MissingField(ptype, ssid, password) ==
    \/ ptype = "good" /\ (ssid = NoValue \/ password = NoValue)
    \/ ptype = "bad" /\ ssid = NoValue

\* C14: a start request that lacks a field its persona type needs (a good
\* persona without credential among them) is rejected: no container is
\* created, no interface is moved or renamed, and the records and the state
\* file stay as they were.
C14_MissingFieldRejected ==
    [][(last'.op = "start"
        /\ MissingField(last'.ptype, last'.ssid, last'.password))
       => (/\ ~last'.ok
           /\ last'.created = NoId
           /\ containers' = containers
           /\ loc' = loc
           /\ ifname' = ifname
           /\ personas' = personas
           /\ interfaces' = interfaces
           /\ disk' = disk)]_vars

\* a wireless interface is free: no record of it, and the device is on the
\* host under its own name.
FreeWifi(i) ==
    /\ i \in WifiIfaces
    /\ i \notin DOMAIN interfaces
    /\ loc[i] = HostNs
    /\ ifname[i] = i

\* C15: a start request for a bad persona that carries a network identifier
\* and no credential, on a free wireless interface and with every external
\* call working, succeeds; the container's environment holds the identifier
\* of the request and no credential, and the interface's record refers to
\* the new container.
C15_BadPersonaAccepted ==
    [][(/\ last'.op = "start"
        /\ last'.ptype = "bad"
        /\ last'.ssid # NoValue
        /\ last'.password = NoValue
        /\ nfaults' = nfaults
        /\ FreeWifi(last'.iface))
       => (/\ last'.ok
           /\ last'.cid \in DOMAIN containers'
           /\ containers'[last'.cid].env = EnvVars(last'.ssid, NoValue)
           /\ last'.iface \in DOMAIN interfaces'
           /\ interfaces'[last'.iface].container_id = last'.cid)]_vars

\* C16: a start with a persona type other than good, bad and wired returns
\* the input error and has no effect: reconciliation does not run and
\* nothing is written, no container is created, no device is moved or
\* renamed, and records, state file and client connections stay as they were.
C16_UnknownType ==
    [][(last'.op = "start" /\ last'.ptype \notin PersonaTypes)
       => (/\ ~last'.ok
           /\ last'.msg = "unknown_type"
           /\ ~last'.wrote
           /\ ~last'.listed
           /\ last'.created = NoId
           /\ UNCHANGED <<mgrVars, worldVars>>)]_vars

\* C16: a start with an unknown type has returned while a record that a
\* reconciliation would remove is in the state and the runtime is reachable.
C16_Witness ==
    /\ last.op = "start"
    /\ last.ptype \notin PersonaTypes
    /\ last.msg = "unknown_type"
    /\ nfaults = 0
    /\ \E c \in DOMAIN personas : ~PersonaLive(c)

\* C17: the state file is replaced atomically: whatever happens during an
\* operation or during its write, the file afterwards holds a complete
\* document, either the one it held before or the one of the records now in
\* memory, so a restart never loads an empty or truncated document.
C17_AtomicRewrite ==
    [][/\ disk'.ok
       /\ disk' = disk \/ disk' = Document(personas', interfaces')]_vars

\* C18: at every operation boundary the records in the state file equal the
\* records in memory: every mutation by a start, a stop or a reconciliation
\* has been followed by a complete rewrite before the operation returned.
C18_PersistedEqualsMemory ==
    disk = Document(personas, interfaces)

\* C19: the radio move of a start is only ever run with the radio of the
\* device that carries the requested interface name on the host; when that
\* radio cannot be resolved the move is not run at all.
C19_NoDefaultRadio ==
    [][(last'.op = "start" /\ last'.phy # "none")
       => \E i \in DevicesNamed(loc, ifname, HostNs, last'.iface) \cap WifiIfaces :
             PhyOf(i) = last'.phy]_vars

\* C20: when the radio move of a start succeeded and the attach then failed
\* (rename or activation inside the container), return_to_host was called
\* before the error was returned.
C20_FailedAttachReturns ==
    [][(last'.op = "start" /\ last'.moved /\ last'.msg = "move_failed")
       => last'.back]_vars

\* C21: a call of return_to_host (by a stop, or by a start whose attach
\* failed) returns failure only after both moves were run: whenever the
\* direct move fails, a timeout included, the radio move is run too.
C21_TwoTier ==
    last.op \in {"start", "stop"} => last.ret # "abandoned"

\* the personas that run: what a shutdown has to stop.
Running == {c \in DOMAIN containers : containers[c].status = "running"}

\* C22: cleanup_all returns exactly one result entry for every persona that
\* runs when it is called, whatever fails on the way; when no external call
\* fails, none of these containers exists afterwards and no persona or
\* interface record refers to one of them.
C22_CleanupAll ==
    [][last'.op = "cleanup"
       => (/\ DOMAIN last'.results = Running
           /\ nfaults' = nfaults
              => \A c \in Running :
                    /\ c \notin DOMAIN containers'
                    /\ c \notin DOMAIN personas'
                    /\ \A i \in DOMAIN interfaces' :
                          /\ interfaces'[i].container_id # c
                          /\ interfaces'[i].container_name # containers[c].name)]_vars

\* C23: with no external call failing in the whole run, a stop of a running
\* persona whose interface is in its container leaves that interface in the
\* root namespace under the name the persona was started on.
C23_RoundTrip ==
    [][(/\ last'.op = "stop"
        /\ last'.ok
        /\ nfaults' = 0
        /\ last'.cid \in DOMAIN personas
        /\ PidOf(containers, last'.cid) # 0
        /\ loc[personas[last'.cid].interface] = NsOf(last'.cid))
       => (/\ loc'[personas[last'.cid].interface] = HostNs
           /\ ifname'[personas[last'.cid].interface]
                = personas[last'.cid].interface)]_vars

\* the record of interface i is as it was.
RecordKept(i) == i \in DOMAIN interfaces' /\ interfaces'[i] = interfaces[i]

\* C24: a start on an interface that has a record changes or removes the
\* record, or creates a container, only when no container the record refers
\* to exists; and when its probe of the recorded container could not be
\* completed it keeps the record and creates no container.
C24_VerifiedBeforeRemoval ==
    [][(/\ last'.op = "start"
        /\ last'.iface \in DOMAIN interfaces)
       => (/\ (~RecordKept(last'.iface) \/ last'.created # NoId)
              => RecordHolders(last'.iface) = {}
           /\ last'.probe = "unknown"
              => RecordKept(last'.iface) /\ last'.created = NoId)]_vars

\* a reconciliation result r keeps every record of the current state whose
\* container exists.
KeepsLive(r) ==
    /\ \A c \in DOMAIN personas :
          PersonaLive(c) => c \in DOMAIN r.personas /\ r.personas[c] = personas[c]
    /\ \A i \in DOMAIN interfaces :
          RecordHolders(i) # {}
          => i \in DOMAIN r.interfaces /\ r.interfaces[i] = interfaces[i]

\* C25: in every state, a reconciliation run (whether the runtime can be
\* reached, and whether the listing works, or not) keeps every persona record
\* and every interface record whose container exists, whatever the
\* container's status.
C25_LivePreserved ==
    \A ping \in BOOLEAN, listOk \in BOOLEAN :
        KeepsLive(CleanupStaleState(personas, interfaces, containers, client,
                                    ping, listOk))

\* C25: a list_personas has removed stale records and written the state
\* while the records of a container that has exited are still there.
C25_Witness ==
    /\ last.op = "list"
    /\ last.listed
    /\ last.wrote
    /\ \E c \in DOMAIN personas :
          /\ c \in DOMAIN containers
          /\ containers[c].status = "exited"
          /\ personas[c].interface \in DOMAIN interfaces
          /\ interfaces[personas[c].interface].container_id = c

\* the answers of a start that got as far as the call that creates the
\* container (which the runtime may refuse).
ReachedCreate == {"started", "move_failed", "api_error", "image_not_found"}

\* C26: a start on an interface whose record refers to no existing container
\* is never answered "already assigned"; and when the type is a known one and
\* no external call fails, reconciliation has listed the containers and the
\* start has gone on to the creation of a container.
C26_StaleNeverBlocks ==
    [][(/\ last'.op = "start"
        /\ last'.iface \in DOMAIN interfaces
        /\ RecordHolders(last'.iface) = {})
       => (/\ last'.msg # "already_assigned"
           /\ (last'.ptype \in PersonaTypes /\ nfaults' = nfaults)
              => last'.listed /\ last'.msg \in ReachedCreate)]_vars

\* C26: with no external call failing, a start found a record that its
\* reconciliation had left in place, probed the recorded container, found it
\* missing and created a container.
C26_Witness ==
    /\ last.op = "start"
    /\ nfaults = 0
    /\ last.listed
    /\ last.probe = "absent"
    /\ last.created # NoId

\* C27: a stop that finds its container captures the process id the
\* container has before it is stopped, then stops it, returns the interface,
\* removes the container and deletes the records, in this order;
\* return_to_host is called exactly when the captured id is greater than 0,
\* and in both cases the persona's record and the interface record that
\* refers to it are gone afterwards.
C27_StopOrder ==
    [][(last'.op = "stop" /\ last'.msg = "stopped")
       => (/\ last'.pid \in {0, PidOf(containers, last'.cid)}
           /\ nfaults' = nfaults => last'.pid = PidOf(containers, last'.cid)
           /\ last'.ret # "none" <=> last'.pid > 0
           /\ last'.steps =
                IF last'.pid > 0
                THEN <<"pid", "stop", "return", "remove", "records", "save">>
                ELSE <<"pid", "stop", "remove", "records", "save">>
           /\ last'.cid \notin DOMAIN personas'
           /\ \A i \in DOMAIN interfaces' :
                 interfaces'[i].container_id # last'.cid)]_vars

\* C27: a stop of a started persona captured a process id, called
\* return_to_host, which returned False, and deleted the records all the same.
C27_Witness ==
    /\ last.op = "stop"
    /\ last.msg = "stopped"
    /\ last.pid > 0
    /\ last.ret = "abandoned"
    /\ nextId > 1
    /\ last.cid \notin DOMAIN personas
    /\ interfaces = EmptyMap

\* C28: a stop of a recorded persona whose container the runtime reports as
\* not found deletes the persona's record and every interface record that
\* refers to it.
C28_StopOfGoneContainer ==
    [][(/\ last'.op = "stop"
        /\ last'.cid \in DOMAIN personas
        /\ last'.cid \notin DOMAIN containers
        /\ last'.msg = "not_found")
       => (/\ last'.cid \notin DOMAIN personas'
           /\ \A i \in DOMAIN interfaces' :
                 interfaces'[i].container_id # last'.cid)]_vars

\* C29: in every state the records written in this run describe the same
\* assignments in both maps: the persona record of container c names
\* interface i exactly when the record of interface i names container c, so
\* neither kind of record exists without the other.
C29_RecordsConsistent ==
    /\ \A c \in DOMAIN personas \cap ContainerIds :
          /\ personas[c].interface \in DOMAIN interfaces
          /\ interfaces[personas[c].interface].container_id = c
    /\ \A i \in DOMAIN interfaces :
          interfaces[i].container_id \in ContainerIds
          => /\ interfaces[i].container_id \in DOMAIN personas
             /\ personas[interfaces[i].container_id].interface = i

\* C30: when the stop thread deletes the records, every interface record it
\* deletes refers to the container it is stopping, whatever other requests
\* ran between its steps.
C30_StopDeletesOwnRecord ==
    [][(tstop.pc = "delete" /\ tstop'.pc = "done")
       => \A i \in DOMAIN interfaces \ DOMAIN interfaces' :
             interfaces[i].container_id = tstop.cid]_vars

\* C31: once two start requests for different interfaces that were served on
\* two threads have both returned success, both assignments are in the
\* records in memory, and the state file holds the complete document of
\* these records.
C31_BothAssignmentsKept ==
    (/\ \A t \in Threads : tpc[t] = "started"
     /\ \A t, u \in Threads : t # u => treq[t].iface # treq[u].iface)
    => (/\ \A t \in Threads :
              /\ tcid[t] \in DOMAIN personas
              /\ treq[t].iface \in DOMAIN interfaces
              /\ interfaces[treq[t].iface].container_id = tcid[t]
        /\ disk = Document(personas, interfaces))

\* C32: a start of a wired persona on a free ethernet interface that is on
\* the host under its own name, with every external call working, returns
\* success: the interface is in the container's namespace under the wired
\* canonical name and both records are written.
C32_WiredReachesRunning ==
    [][(/\ last'.op = "start"
        /\ last'.ptype = "wired"
        /\ ~WlanLike(last'.iface)
        /\ last'.iface \notin DOMAIN interfaces
        /\ loc[last'.iface] = HostNs
        /\ ifname[last'.iface] = last'.iface
        /\ nfaults' = nfaults)
       => (/\ last'.ok
           /\ loc'[last'.iface] = last'.cid
           /\ ifname'[last'.iface] = TargetName("wired")
           /\ last'.cid \in DOMAIN personas'
           /\ last'.iface \in DOMAIN interfaces')]_vars

\* C33: a start whose move_to_container found no container of the name, or
\* found it with process id 0, has failed with no effect on the host: the
\* interface was not deactivated, no radio move was run, and every device is
\* where and named as it was.
C33_NoTargetNoEffect ==
    [][(last'.op = "start" /\ last'.why \in {"not_found", "not_running"})
       => (/\ ~last'.ok
           /\ last'.down = "none"
           /\ last'.phy = "none"
           /\ ~last'.moved
           /\ ~last'.back
           /\ loc' = loc
           /\ ifname' = ifname)]_vars

\* C33: move_to_container was called for a container that had exited (its
\* process id is 0) while the interface was on the host.
C33_Witness ==
    /\ last.op = "start"
    /\ last.why = "not_running"
    /\ last.created # NoId
    /\ loc[last.iface] = HostNs

\* C34: a start whose move_to_container ran the radio move and saw it fail
\* has failed; the message carries the text the tool wrote when the tool
\* exited with an error; the clean-up that follows a failed rename or
\* activation was not reached; and every device is where and named as it was,
\* the interface on the host.
C34_MoveFailureTerminal ==
    [][(last'.op = "start" /\ last'.phy # "none" /\ ~last'.moved)
       => (/\ ~last'.ok
           /\ last'.why \in {"move_failed", "unexpected"}
           /\ last'.why = "move_failed" => last'.diag = ErrorMsg("iw")
           /\ ~last'.back
           /\ loc' = loc
           /\ ifname' = ifname
           /\ DevicesNamed(loc', ifname', HostNs, last'.iface) # {})]_vars

\* C34: the radio move of a start was run with the interface's own radio and
\* failed with an error of the tool.
C34_Witness ==
    /\ last.op = "start"
    /\ last.why = "move_failed"
    /\ last.phy \in {PhyOf(i) : i \in DevicesNamed(loc, ifname, HostNs, last.iface) \cap WifiIfaces}
    /\ ~last.moved

\* C35: a start whose move_to_container could not deactivate the interface
\* on the host, by an error of the tool or by a timeout, went on to run the
\* radio move.
C35_DownFailureNotFatal ==
    [][(last'.op = "start" /\ last'.down \in {"fail", "timeout"})
       => last'.phy # "none"]_vars

\* C36: whenever the return_to_host of a start or a stop returned success,
\* on the direct tier or on the radio tier, a device of the interface's name
\* is in the root namespace and the bring-up on the host was issued.
C36_ReturnedAndUp ==
    (last.op \in {"start", "stop"} /\ last.ret \in {"direct", "radio"})
    => (/\ DevicesNamed(loc, ifname, HostNs, last.iface) # {}
        /\ last.up)

\* C37: a start that reaches the creation of its container generates a name
\* that no container of the runtime carries, whatever was started before and
\* however short the time since.
C37_NamesUnique ==
    [][(last'.op = "start" /\ last'.msg \in ReachedCreate)
       => ~ExistsByName(containers,
                        ContainerName(last'.ptype, last'.iface, now))]_vars

\* C38: a stop called with the id of a container that is no persona (its
\* name is not a persona name and no record names it) leaves that container
\* as it is, running or not, and moves no interface.
C38_StopsPersonasOnly ==
    [][(/\ last'.op = "stop"
        /\ last'.cid \in DOMAIN containers
        /\ ~PersonaNamed(containers[last'.cid].name)
        /\ last'.cid \notin DOMAIN personas)
       => (/\ last'.cid \in DOMAIN containers'
           /\ containers'[last'.cid] = containers[last'.cid]
           /\ loc' = loc)]_vars

\* the names discovery is never to return: loopback, the runtime's bridges,
\* monitor devices and the two names given inside containers.
Excluded(n) ==
    VirtualLike(n) \/ MonLike(n) \/ n \in {TargetName(t) : t \in PersonaTypes}

\* C39: whatever devices the host has and whichever tool fails, the listing
\* of list_available_interfaces holds no excluded name, and with
\* include_ethernet false no entry of type ethernet.
C39_NoExcludedName ==
    last.op = "discover"
    => (/\ \A n \in DOMAIN last.shown : ~Excluded(n)
        /\ ~last.include_ethernet
           => \A n \in DOMAIN last.shown : last.shown[n].type # "ethernet")

\* C40: in every state the requests can reach, two calls of start_persona
\* that differ only in the password leave the same persona records, the same
\* interface records and the same state file, whatever else they are given
\* and whichever call fails.
C40_RecordsIgnorePassword ==
    nextId <= MaxContainers =>
    \A ptype \in PersonaTypes, iface \in Ifaces, f \in Calling({"mv"}) :
       \A p1, p2 \in Passwords :
          LET a == StartPersona(Cur, ptype, iface, "TestNet", p1, now, f).S
              b == StartPersona(Cur, ptype, iface, "TestNet", p2, now, f).S
          IN /\ a.personas = b.personas
             /\ a.interfaces = b.interfaces
             /\ a.disk = b.disk

\* C40: a start that was given a password has succeeded: its container holds
\* the password in its environment and its records are in the state file.
C40_Witness ==
    /\ last.op = "start"
    /\ last.ok
    /\ last.cid \in DOMAIN containers
    /\ containers[last.cid].env.PASSWORD \in Passwords \ {NoValue}
    /\ last.cid \in DOMAIN disk.personas
    /\ last.iface \in DOMAIN disk.interfaces

====
